---- MODULE Spec2Model ----
(***************************************************************************)
(* State-machine model of StoryGenerator (src/src/gen_story.py).           *)
(*                                                                         *)
(* One StoryGenerator instance is modelled.  Its attributes are the        *)
(* variables; an attribute that has never been assigned holds Unset, the   *)
(* Python value None is the value None.  The two hosted services and the   *)
(* template file are environment: every outcome they can produce (a        *)
(* returned text, a raised error, a missing file) is a nondeterministic    *)
(* choice inside the handler that calls them.                              *)
(*                                                                         *)
(* calls, lastSel and lastGen are history variables: the log of service    *)
(* invocations and the record of the most recent selection call and of     *)
(* the most recent generate_response call made after it.                   *)
(***************************************************************************)
EXTENDS Integers, Sequences, FiniteSets, TLC

VARIABLES
    n_words, story_theme, story_inspiration,   \* set in __init__
    story_parts, instrucitons,                 \* set in story_instructions
    topic, context,                            \* set in set_context / set_image_context
    prompt_template, input_variables,
    image, image_prompt,                       \* set in set_image_context
    prompt, response,                          \* set in generate_response
    calls, lastSel, lastGen                    \* history

config == <<n_words, story_theme, story_inspiration, story_parts, instrucitons>>
vars   == <<n_words, story_theme, story_inspiration, story_parts, instrucitons,
            topic, context, prompt_template, input_variables,
            image, image_prompt, prompt, response, calls, lastSel, lastGen>>

----------------------------------------------------------------------------
(* Bounds *)

\* at most this many service invocations are logged in one behaviour
MaxCalls == 3
\* a service response carries at most this many story parts
MaxParts == 2

(* Program constants *)

\* n_words // 200
WordsPerPart == 200

----------------------------------------------------------------------------
(* Values *)

Unset == "<unset>"          \* attribute never assigned (reading it raises AttributeError)
None  == "<None>"           \* Python None
Absent == "<absent>"        \* key not present in a dict

NWords      == {0, 199, 200, 400}
Themes      == {"General"}
Inspirations == {"General"}
TopicArgs   == {None, "", "Dragons"}
ContextArgs == {None, "", "A misty forest"}
Images      == {"img1"}
Descriptions == {"a lake at dusk", "a bar chart"}
ServiceErrors == {"ResourceExhausted", "DeadlineExceeded"}

\* the templates the code can install
FileTemplate         == "inputs/prompt_w_topic.txt"
ContextTemplate      == "context-template"
DefaultTopicTemplate == "Generate a story on {TOPIC} ..."
ImageContextTemplate == "image-context-template"
ImageAnalysisPrompt  == "image-analysis-prompt"

TopicVars   == <<"TOPIC", "instructions_placeholder">>
ContextVars == <<"instructions_placeholder", "context_placeholder">>

In(x, list) == \E i \in DOMAIN list : list[i] = x

\* "is not None" in place of truthiness
TruthyNotNone(v) == v # None

\* Python truthiness of an Optional[str]
Truthy(v) == v # None /\ v # ""

\* str(v) as applied by the template formatting
Str(v) == IF v = None THEN "None" ELSE v

----------------------------------------------------------------------------
(* Instruction builder *)

story_parts_ceil(n) == (n + WordsPerPart - 1) \div WordsPerPart

StoryParts(n) == n \div WordsPerPart

story_instructions(n, theme, inspiration) ==
    [n_words |-> n, story_parts |-> StoryParts(n),
     story_theme |-> theme, story_inspiration |-> inspiration]

NoInstructions ==
    [n_words |-> -1, story_parts |-> -1, story_theme |-> Absent, story_inspiration |-> Absent]

----------------------------------------------------------------------------
(* Service responses *)

TopLevelKeys == {"style", "title", "introduction", "story", "theme"}

\* a part is "ok" (non-empty story and image_prompt) or "empty" (an empty field)
OkParts(k) == [i \in 1..k |-> "ok"]
LastEmpty(k) == [i \in 1..k |-> IF i = k THEN "empty" ELSE "ok"]

\* raw texts the Text Generation Service can return: a text that is not JSON,
\* JSON with every key and k well-formed parts, JSON whose last part has an
\* empty field, JSON without the theme key
RawResponses ==
    {[json |-> FALSE, keys |-> {}, parts |-> <<>>]}
    \cup {[json |-> TRUE, keys |-> TopLevelKeys, parts |-> OkParts(k)] : k \in 0..MaxParts}
    \cup {[json |-> TRUE, keys |-> TopLevelKeys, parts |-> LastEmpty(k)] : k \in 1..MaxParts}
    \cup {[json |-> TRUE, keys |-> TopLevelKeys \ {"theme"}, parts |-> OkParts(k)] : k \in 0..MaxParts}

\* self.response before generate_response has ever assigned it
NoResponse == [json |-> FALSE, keys |-> {}, parts |-> <<>>]

\* JsonOutputParser: accepts exactly the texts that are JSON
ParserAccepts(r) == r.json

----------------------------------------------------------------------------
(* History records *)

NoValues ==
    [keys |-> {}, instructions_placeholder |-> NoInstructions,
     context_placeholder |-> Absent, TOPIC |-> Absent]

NoSel ==
    [op |-> "none", context |-> Absent, topic |-> Absent, img |-> Absent,
     outcome |-> "-", error |-> "-", desc |-> Absent,
     descCalls |-> 0, textCalls |-> 0, descIdx |-> 0]

NoGen ==
    [ran |-> FALSE, outcome |-> "-", error |-> "-", raised |-> "-",
     template |-> Absent, values |-> NoValues, formatted |-> Absent,
     descCalls |-> 0, textCalls |-> 0, textIdx |-> 0,
     raw |-> NoResponse, returned |-> NoResponse]

----------------------------------------------------------------------------
\* a constructor that preselects the default topic mode
InitModePreselected ==
    /\ topic = None
    /\ context = None
    /\ prompt_template = DefaultTopicTemplate
    /\ input_variables = TopicVars

\* __init__ assigns none of the mode attributes
InitMode ==
    /\ topic = Unset
    /\ context = Unset
    /\ prompt_template = Unset
    /\ input_variables = <<>>

Init ==
    /\ n_words \in NWords
    /\ story_theme \in Themes
    /\ story_inspiration \in Inspirations
    /\ story_parts = StoryParts(n_words)
    /\ instrucitons = story_instructions(n_words, story_theme, story_inspiration)
    /\ InitMode
    /\ image = Unset
    /\ image_prompt = <<>>
    /\ prompt = [template |-> Unset, input_variables |-> <<>>]
    /\ response = NoResponse
    /\ calls = <<>>
    /\ lastSel = NoSel
    /\ lastGen = NoGen

----------------------------------------------------------------------------
(* Mode selector: set_context *)

\* the branch set_context takes
Branch(c, t) == IF Truthy(t) THEN "topic" ELSE IF Truthy(c) THEN "context" ELSE "neither"

SelRecord(op, c, t, img, outcome, error, desc, nDesc) ==
    [op |-> op, context |-> c, topic |-> t, img |-> img,
     outcome |-> outcome, error |-> error, desc |-> desc,
     descCalls |-> nDesc, textCalls |-> 0,
     descIdx |-> IF nDesc = 0 THEN 0 ELSE Len(calls) + 1]

\* open("inputs/prompt_w_topic.txt") succeeds
set_context_topic_loaded(c, t) ==
    /\ Truthy(t)
    /\ topic' = t
    /\ context' = c
    /\ prompt_template' = FileTemplate
    /\ input_variables' = TopicVars
    /\ lastSel' = SelRecord("set_context", c, t, Absent, "ok", "-", Absent, 0)

\* open("inputs/prompt_w_topic.txt") raises: the two assignments before it stay
set_context_topic_missing(c, t) ==
    /\ Truthy(t)
    /\ topic' = t
    /\ context' = c
    /\ UNCHANGED <<prompt_template, input_variables>>
    /\ lastSel' = SelRecord("set_context", c, t, Absent, "raise", "FileNotFoundError", Absent, 0)

\* the context branch with topic assigned only in the topic branch
set_context_context_keeps_topic(c, t) ==
    /\ ~Truthy(t)
    /\ Truthy(c)
    /\ UNCHANGED topic
    /\ context' = c
    /\ prompt_template' = ContextTemplate
    /\ input_variables' = ContextVars
    /\ lastSel' = SelRecord("set_context", c, t, Absent, "ok", "-", Absent, 0)

set_context_context(c, t) ==
    /\ ~Truthy(t)
    /\ Truthy(c)
    /\ topic' = t
    /\ context' = c
    /\ prompt_template' = ContextTemplate
    /\ input_variables' = ContextVars
    /\ lastSel' = SelRecord("set_context", c, t, Absent, "ok", "-", Absent, 0)

set_context_neither(c, t) ==
    /\ ~Truthy(t)
    /\ ~Truthy(c)
    /\ topic' = t
    /\ context' = c
    /\ prompt_template' = DefaultTopicTemplate
    /\ input_variables' = TopicVars
    /\ lastSel' = SelRecord("set_context", c, t, Absent, "ok", "-", Absent, 0)

set_context(c, t) ==
    /\ \/ set_context_topic_loaded(c, t)
       \/ set_context_topic_missing(c, t)
       \/ set_context_context(c, t)
       \/ set_context_neither(c, t)
    /\ lastGen' = NoGen
    /\ UNCHANGED <<config, image, image_prompt, prompt, response, calls>>

----------------------------------------------------------------------------
(* Mode selector: set_image_context *)

\* the description is fetched but never stored
set_image_context_described_dropped(img, d) ==
    /\ UNCHANGED context
    /\ prompt_template' = ImageContextTemplate
    /\ input_variables' = ContextVars
    /\ lastSel' = SelRecord("set_image_context", Absent, Absent, img, "ok", "-", d, 1)

\* image_to_text_model.generate_content(...).text returns d
set_image_context_described(img, d) ==
    /\ context' = d
    /\ prompt_template' = ImageContextTemplate
    /\ input_variables' = ContextVars
    /\ lastSel' = SelRecord("set_image_context", Absent, Absent, img, "ok", "-", d, 1)

\* the template is installed before the description call
set_image_context_failed_template_first(img, e) ==
    /\ UNCHANGED context
    /\ prompt_template' = ImageContextTemplate
    /\ input_variables' = ContextVars
    /\ lastSel' = SelRecord("set_image_context", Absent, Absent, img, "raise", e, Absent, 1)

\* image_to_text_model.generate_content(...) raises e
set_image_context_failed(img, e) ==
    /\ UNCHANGED <<context, prompt_template, input_variables>>
    /\ lastSel' = SelRecord("set_image_context", Absent, Absent, img, "raise", e, Absent, 1)

set_image_context(img) ==
    /\ Len(calls) < MaxCalls
    /\ image' = img
    /\ image_prompt' = <<ImageAnalysisPrompt, img>>
    /\ calls' = Append(calls, "desc")
    /\ \/ \E d \in Descriptions : set_image_context_described(img, d)
       \/ \E e \in ServiceErrors : set_image_context_failed(img, e)
    /\ lastGen' = NoGen
    /\ UNCHANGED <<config, topic, prompt, response>>

----------------------------------------------------------------------------
(* Generation invoker: generate_response *)

\* a handler that wraps what it caught
ReraiseWrapped(e) == "Exception"

\* "except Exception as e: raise e"
Reraise(e) == e

\* "if not self.topic" in place of "is None"
TopicOrRandomFalsy(t) == IF t = None \/ t = "" THEN "Random" ELSE t

\* "if self.topic is None: self.topic = 'Random'"
TopicOrRandom(t) == IF t = None THEN "Random" ELSE t

\* the dict handed to chain.invoke
ContextValues ==
    [keys |-> {"instructions_placeholder", "context_placeholder"},
     instructions_placeholder |-> instrucitons,
     context_placeholder |-> context, TOPIC |-> Absent]

TopicValues(t) ==
    [keys |-> {"instructions_placeholder", "TOPIC"},
     instructions_placeholder |-> instrucitons,
     context_placeholder |-> Absent, TOPIC |-> t]

UsesContext == In("context_placeholder", input_variables)

InvokeValues == IF UsesContext THEN ContextValues ELSE TopicValues(TopicOrRandom(topic))

\* the text the prompt template renders for the mode-specific placeholder
Formatted(v) == IF "context_placeholder" \in v.keys THEN Str(v.context_placeholder) ELSE Str(v.TOPIC)

GenRecord(outcome, error, raised, nText, raw, returned) ==
    [ran |-> TRUE, outcome |-> outcome, error |-> error, raised |-> raised,
     template |-> IF nText = 0 THEN Absent ELSE prompt_template,
     values |-> IF nText = 0 THEN NoValues ELSE InvokeValues,
     formatted |-> IF nText = 0 THEN Absent ELSE Formatted(InvokeValues),
     descCalls |-> 0, textCalls |-> nText,
     textIdx |-> IF nText = 0 THEN 0 ELSE Len(calls) + 1,
     raw |-> raw, returned |-> returned]

\* self.prompt_template was never assigned: AttributeError before anything is sent
generate_response_unset ==
    /\ prompt_template = Unset
    /\ lastGen' = GenRecord("raise", Reraise("AttributeError"), "AttributeError", 0, NoResponse, NoResponse)
    /\ UNCHANGED <<topic, prompt, response, calls>>

\* the steps up to and including the one call of chain.invoke
Invoke ==
    /\ prompt_template # Unset
    /\ Len(calls) < MaxCalls
    /\ prompt' = [template |-> prompt_template, input_variables |-> input_variables]
    /\ topic' = IF UsesContext THEN topic ELSE TopicOrRandom(topic)
    /\ calls' = Append(calls, "text")

\* the Text Generation Service raises e
generate_response_service_error(e) ==
    /\ Invoke
    /\ lastGen' = GenRecord("raise", Reraise(e), e, 1, NoResponse, NoResponse)
    /\ UNCHANGED response

\* the service returns r and the JSON parser rejects it
generate_response_not_json(r) ==
    /\ Invoke
    /\ ~ParserAccepts(r)
    /\ lastGen' = GenRecord("raise", Reraise("OutputParserException"), "OutputParserException",
                            1, r, NoResponse)
    /\ UNCHANGED response

\* the service returns r, the JSON parser accepts it, and the parsed value is returned
generate_response_returned(r) ==
    /\ Invoke
    /\ ParserAccepts(r)
    /\ response' = r
    /\ lastGen' = GenRecord("ok", "-", "-", 1, r, r)

generate_response ==
    /\ \/ generate_response_unset
       \/ \E e \in ServiceErrors : generate_response_service_error(e)
       \/ \E r \in RawResponses : generate_response_not_json(r)
       \/ \E r \in RawResponses : generate_response_returned(r)
    /\ UNCHANGED <<config, context, prompt_template, input_variables,
                   image, image_prompt, lastSel>>

----------------------------------------------------------------------------
Next ==
    \/ \E c \in ContextArgs, t \in TopicArgs : set_context(c, t)
    \/ \E img \in Images : set_image_context(img)
    \/ generate_response

Spec == Init /\ [][Next]_vars

TypeOK ==
    /\ n_words \in NWords
    /\ story_parts \in 0..(400 \div WordsPerPart)
    /\ topic \in TopicArgs \cup {Unset, "Random"}
    /\ context \in ContextArgs \cup Descriptions \cup {Unset}
    /\ prompt_template \in {Unset, FileTemplate, ContextTemplate, DefaultTopicTemplate, ImageContextTemplate}
    /\ Len(calls) <= MaxCalls

----------------------------------------------------------------------------
(* Auxiliary predicates of the properties *)

SelOk(op) == lastSel.op = op /\ lastSel.outcome = "ok"
SelBranch == Branch(lastSel.context, lastSel.topic)
Sent == lastGen.ran /\ lastGen.textCalls = 1
ContextKeys == {"instructions_placeholder", "context_placeholder"}
TopicKeys   == {"instructions_placeholder", "TOPIC"}

\* the structural validation the StoryResult schema describes
StructurallyValid(r, partCount) ==
    /\ r.json
    /\ r.keys = TopLevelKeys
    /\ Len(r.parts) = partCount
    /\ \A i \in DOMAIN r.parts : r.parts[i] = "ok"

\* what a generate_response issued now would send
PromptNow ==
    IF prompt_template = Unset
    THEN [template |-> Unset, values |-> NoValues]
    ELSE [template |-> prompt_template, values |-> InvokeValues]

----------------------------------------------------------------------------
(* C1: after a successful mode-selection call the template, the placeholder *)
(* set and the values generate_response substitutes are those of that mode  *)
(* only; selecting a context stores the (absent) topic argument, so no      *)
(* topic of an earlier selection survives and no TOPIC value is sent.       *)
C1_ModeExclusive ==
    /\ (SelOk("set_context") /\ SelBranch = "topic") =>
          /\ prompt_template = FileTemplate
          /\ input_variables = TopicVars
          /\ topic = lastSel.topic
          /\ Sent => /\ lastGen.template = FileTemplate
                     /\ lastGen.values.keys = TopicKeys
                     /\ lastGen.values.TOPIC = lastSel.topic
                     /\ lastGen.values.context_placeholder = Absent
    /\ (SelOk("set_context") /\ SelBranch = "context") =>
          /\ prompt_template = ContextTemplate
          /\ input_variables = ContextVars
          /\ context = lastSel.context
          /\ topic = lastSel.topic
          /\ ~Truthy(topic)
          /\ Sent => /\ lastGen.template = ContextTemplate
                     /\ lastGen.values.keys = ContextKeys
                     /\ lastGen.values.context_placeholder = lastSel.context
                     /\ lastGen.values.TOPIC = Absent
    /\ (SelOk("set_context") /\ SelBranch = "neither") =>
          /\ prompt_template = DefaultTopicTemplate
          /\ input_variables = TopicVars
          /\ Sent => /\ lastGen.template = DefaultTopicTemplate
                     /\ lastGen.values.keys = TopicKeys
                     /\ lastGen.values.context_placeholder = Absent
    /\ SelOk("set_image_context") =>
          /\ prompt_template = ImageContextTemplate
          /\ input_variables = ContextVars
          /\ context = lastSel.desc
          /\ Sent => /\ lastGen.template = ImageContextTemplate
                     /\ lastGen.values.keys = ContextKeys
                     /\ lastGen.values.context_placeholder = lastSel.desc
                     /\ lastGen.values.TOPIC = Absent

\* a topic was selected, then an image: the topic is still stored, the request has none
C1_Witness ==
    /\ SelOk("set_image_context")
    /\ topic = "Dragons"
    /\ Sent
    /\ lastGen.values.TOPIC = Absent

----------------------------------------------------------------------------
(* C2 as stated: generate_response with no selection call ever made fails   *)
(* with a PreconditionError and calls neither service.                      *)
C2_Original ==
    (lastGen.ran /\ lastSel.op = "none") =>
        /\ lastGen.outcome = "raise"
        /\ lastGen.error = "PreconditionError"
        /\ lastGen.textCalls = 0 /\ lastGen.descCalls = 0

(* C2 amended: generate_response with no selection call ever made fails     *)
(* with the AttributeError of reading the unassigned prompt_template, and   *)
(* calls neither service.                                                   *)
C2_NoModeFails ==
    (lastGen.ran /\ lastSel.op = "none") =>
        /\ lastGen.outcome = "raise"
        /\ lastGen.error = "AttributeError"
        /\ lastGen.textCalls = 0 /\ lastGen.descCalls = 0
        /\ calls = <<>>
        /\ response = NoResponse

C2_Witness == lastGen.ran /\ lastSel.op = "none"

----------------------------------------------------------------------------
(* C3 as stated: generate_response returns a value only if it passes the    *)
(* structural validation (all top-level keys, exactly story_parts parts,    *)
(* no empty field); a JSON response violating it fails with                 *)
(* MalformedResponseError.                                                  *)
C3_Original ==
    /\ (lastGen.ran /\ lastGen.outcome = "ok") =>
          StructurallyValid(lastGen.returned, story_parts)
    /\ (Sent /\ lastGen.raw.json /\ ~StructurallyValid(lastGen.raw, story_parts)) =>
          (lastGen.outcome = "raise" /\ lastGen.error = "MalformedResponseError")

----------------------------------------------------------------------------
(* C4: a successful set_image_context calls the description service exactly *)
(* once and no text service; a generate_response after it calls the text    *)
(* service after that description call, makes no description call itself,   *)
(* and substitutes exactly the returned description for the context.        *)
C4_ImageDescribedOnceBefore ==
    /\ SelOk("set_image_context") =>
          /\ lastSel.descCalls = 1 /\ lastSel.textCalls = 0
          /\ lastSel.descIdx \in 1..Len(calls)
          /\ calls[lastSel.descIdx] = "desc"
          /\ \A i \in (lastSel.descIdx + 1)..Len(calls) : calls[i] = "text"
    /\ (SelOk("set_image_context") /\ lastGen.ran) =>
          /\ lastGen.descCalls = 0 /\ lastGen.textCalls = 1
          /\ lastSel.descIdx < lastGen.textIdx
          /\ lastGen.textIdx = Len(calls)
          /\ calls[lastGen.textIdx] = "text"
          /\ lastGen.values.context_placeholder = lastSel.desc
          /\ lastGen.formatted = lastSel.desc

C4_Witness ==
    /\ SelOk("set_image_context")
    /\ Sent
    /\ lastGen.values.context_placeholder \in Descriptions

----------------------------------------------------------------------------
(* C5 as stated: set_context with an empty context and no topic is rejected *)
(* with a PreconditionError and no generation request is ever sent for it.  *)
C5_Original ==
    (lastSel.op = "set_context" /\ lastSel.context = "" /\ lastSel.topic = None) =>
        /\ lastSel.outcome = "raise"
        /\ lastSel.error = "PreconditionError"
        /\ lastGen.textCalls = 0

(* C5 amended: set_context with an empty context and no topic is accepted   *)
(* as if no context were given: it calls no service, installs the default   *)
(* topic-keyed template, and a following generate_response sends one        *)
(* topic-keyed request with TOPIC = "Random".                               *)
C5_EmptyContextIsNeither ==
    (lastSel.op = "set_context" /\ lastSel.context = "" /\ lastSel.topic = None) =>
        /\ lastSel.outcome = "ok"
        /\ lastSel.descCalls = 0 /\ lastSel.textCalls = 0
        /\ prompt_template = DefaultTopicTemplate
        /\ input_variables = TopicVars
        /\ context = ""
        /\ lastGen.ran =>
              /\ lastGen.textCalls = 1
              /\ lastGen.values.keys = TopicKeys
              /\ lastGen.values.TOPIC = "Random"

C5_Witness ==
    /\ lastSel.op = "set_context" /\ lastSel.context = "" /\ lastSel.topic = None
    /\ Sent

----------------------------------------------------------------------------
(* C6: after a topic-mode selection without a topic the stored topic stays  *)
(* None until generate_response runs; every topic-keyed request sends the   *)
(* topic argument of the latest set_context if it was not None and "Random" *)
(* otherwise, and "Random" is never sent for the context.                   *)
C6_TopicDefault ==
    /\ (lastSel.op = "set_context" /\ ~lastGen.ran) => topic = lastSel.topic
    /\ (lastSel.op = "set_context" /\ Sent /\ "TOPIC" \in lastGen.values.keys) =>
          /\ lastGen.values.TOPIC = (IF lastSel.topic = None THEN "Random" ELSE lastSel.topic)
          /\ lastGen.formatted = lastGen.values.TOPIC
    /\ Sent => lastGen.values.context_placeholder # "Random"

C6_Witness ==
    /\ SelOk("set_context") /\ lastSel.topic = None /\ SelBranch = "neither"
    /\ Sent
    /\ lastGen.values.TOPIC = "Random"
    /\ topic = "Random"

----------------------------------------------------------------------------
(* C7: story_parts is n_words // 200 (0 below 200), the instruction block   *)
(* carries that part count and the word count, no call changes either, and  *)
(* every request sends the instructions of the construction-time values.    *)
C7_Config ==
    /\ story_parts = n_words \div 200
    /\ (n_words < 200 => story_parts = 0)
    /\ instrucitons.story_parts = n_words \div 200
    /\ instrucitons.n_words = n_words
    /\ instrucitons.story_theme = story_theme
    /\ instrucitons.story_inspiration = story_inspiration
    /\ Sent => lastGen.values.instructions_placeholder =
                  [n_words |-> n_words, story_parts |-> n_words \div 200,
                   story_theme |-> story_theme, story_inspiration |-> story_inspiration]

C7_PartsFixed ==
    /\ []C7_Config
    /\ [][UNCHANGED <<n_words, story_theme, story_inspiration, story_parts, instrucitons>>]_vars

C7_Witness ==
    /\ Sent
    /\ n_words = 400 /\ story_parts = 2
    /\ lastGen.values.instructions_placeholder.story_parts = 2

----------------------------------------------------------------------------
(* C8: a generate_response with a template installed invokes the text       *)
(* service exactly once, in either branch; when the service raises, the     *)
(* caller gets that same error, nothing is returned or stored, and there is *)
(* no second invocation.                                                    *)
C8_OneInvocation ==
    (lastGen.ran /\ prompt_template # Unset) =>
        /\ lastGen.textCalls = 1 /\ lastGen.descCalls = 0
        /\ lastGen.textIdx = Len(calls)
        /\ calls[lastGen.textIdx] = "text"
        /\ lastGen.values.keys \in {TopicKeys, ContextKeys}
        /\ (lastGen.raised \in ServiceErrors) =>
              /\ lastGen.outcome = "raise"
              /\ lastGen.error = lastGen.raised
              /\ lastGen.returned = NoResponse

C8_Witness ==
    /\ lastGen.ran /\ prompt_template # Unset
    /\ lastGen.raised \in ServiceErrors
    /\ lastGen.values.keys = ContextKeys

----------------------------------------------------------------------------
(* C9 as stated: whenever the active placeholder set contains               *)
(* context_placeholder the stored context is set and not None, whenever it  *)
(* contains TOPIC the template is topic-keyed, and no request substitutes   *)
(* an unset context.                                                        *)
C9_Original ==
    /\ In("context_placeholder", input_variables) => context \notin {None, Unset}
    /\ In("TOPIC", input_variables) => prompt_template \in {FileTemplate, DefaultTopicTemplate}
    /\ (Sent /\ "context_placeholder" \in lastGen.values.keys) =>
          lastGen.values.context_placeholder \notin {None, Unset}

----------------------------------------------------------------------------
(* C10: a set_image_context whose description call raises makes exactly one *)
(* description call, reports that error, and leaves template, placeholder   *)
(* set, context and topic as they were, so the request a generate_response  *)
(* would send is the same as before.                                        *)
FailedImageStep ==
    /\ lastSel'.op = "set_image_context"
    /\ lastSel'.outcome = "raise"
    /\ Len(calls') = Len(calls) + 1
    /\ calls'[Len(calls')] = "desc"

====
